---- MODULE Spec2Model ----
(***************************************************************************)
(* Statscope: the analysis pipeline of analyzer.py, the paginated PDF      *)
(* report it builds, and the Streamlit run of app.py that drives both.     *)
(*                                                                         *)
(* Representation                                                          *)
(*   - a table (pandas DataFrame) is [nrows, columns]; a column is         *)
(*     [name, dtype, values]; a name is a sequence of characters;          *)
(*   - a cell is an integer: NULL is a missing cell (NaN/None), a numeric  *)
(*     cell holds its value, a text cell holds the code of its string;     *)
(*   - an optional value (df, corr_matrix) is None or Some(x);             *)
(*   - a float that is a quotient is kept exact as a pair <<num, den>>;    *)
(*     a Pearson coefficient cov/sqrt(vx*vy) is kept as [nan, num, den2];  *)
(*   - lengths on the PDF canvas are in hundredths of a point.             *)
(***************************************************************************)
EXTENDS Integers, Sequences, FiniteSets, TLC

\* ------------------------------------------------------------ bounds
MaxCols == 3
MaxCells == 4
MaxRecords == 4

\* ------------------------------------------------------------ values
NULL == -1
None == << >>
Some(x) == << x >>

Min(a, b) == IF a <= b THEN a ELSE b
Max(a, b) == IF a >= b THEN a ELSE b

RECURSIVE Sum(_)
Sum(s) == IF s = << >> THEN 0 ELSE Head(s) + Sum(Tail(s))

SeqMin(s) == CHOOSE m \in {s[i] : i \in 1..Len(s)} : \A i \in 1..Len(s) : m <= s[i]
SeqMax(s) == CHOOSE m \in {s[i] : i \in 1..Len(s)} : \A i \in 1..Len(s) : m >= s[i]

\* the k-th smallest element of s
Kth(s, k) ==
    CHOOSE v \in {s[i] : i \in 1..Len(s)} :
        /\ Cardinality({i \in 1..Len(s) : s[i] < v}) < k
        /\ Cardinality({i \in 1..Len(s) : s[i] <= v}) >= k

\* ------------------------------------------------------------ pandas primitives
IsNumber(dtype) == dtype \in {"int64", "float64"}
IsObject(dtype) == dtype = "object"

\* df.select_dtypes(include=...).columns, in table order
SelectNumber(df) == SelectSeq(df.columns, LAMBDA c : IsNumber(c.dtype))
SelectObject(df) == SelectSeq(df.columns, LAMBDA c : IsObject(c.dtype))

\* Series.dropna(), Series.nunique(), Series.isnull().sum()
DropNa(values) == SelectSeq(values, LAMBDA v : v # NULL)
NUnique(values) == Cardinality({values[i] : i \in 1..Len(values)} \ {NULL})
NullCount(values) == Len(SelectSeq(values, LAMBDA v : v = NULL))

\* str.lower() on the characters the column names use
Lower(ch) ==
    CASE ch = "I" -> "i"
      [] ch = "D" -> "d"
      [] ch = "U" -> "u"
      [] ch = "C" -> "c"
      [] ch = "S" -> "s"
      [] ch = "V" -> "v"
      [] ch = "X" -> "x"
      [] ch = "L" -> "l"
      [] OTHER -> ch
LowerStr(s) == [i \in 1..Len(s) |-> Lower(s[i])]

\* s.endswith(suffix)
EndsWith(s, suffix) ==
    Len(s) >= Len(suffix) /\ SubSeq(s, Len(s) - Len(suffix) + 1, Len(s)) = suffix

\* sub in s
Contains(sub, s) ==
    \E i \in 1..(Len(s) - Len(sub) + 1) : SubSeq(s, i, i + Len(sub) - 1) = sub

\* ------------------------------------------------------------ dataset overview
\* the text codes that pd.to_datetime parses; every other value coerces to NaT
DateTexts == {2}

DateColumnFound(df, c) ==
    /\ IsObject(c.dtype)
    /\ df.nrows > 0
    /\ Len(SelectSeq(c.values, LAMBDA v : v \in DateTexts)) * 10 > 7 * df.nrows

RECURSIVE identify_date_range(_, _)
identify_date_range(df, i) ==
    IF i > Len(df.columns) THEN [found |-> FALSE, min |-> 0, max |-> 0]
    ELSE IF DateColumnFound(df, df.columns[i])
         THEN LET dates == SelectSeq(df.columns[i].values, LAMBDA v : v \in DateTexts)
              IN  [found |-> TRUE, min |-> SeqMin(dates), max |-> SeqMax(dates)]
         ELSE identify_date_range(df, i + 1)

get_dataset_overview(df) ==
    [total_rows |-> df.nrows,
     total_columns |-> Len(df.columns),
     date_range |-> identify_date_range(df, 1)]

\* ------------------------------------------------------------ data quality
Percent == 100

\* the fraction, not the percentage
MissingFraction(count, nrows) == << count, nrows >>

\* (missing[col] / len(df)) * 100, exact
MissingPercentage(count, nrows) == << count * Percent, nrows >>

IsMissing(c) == NullCount(c.values) > 0

check_missing_data(df) ==
    LET flagged == SelectSeq(df.columns, IsMissing)
    IN  [i \in 1..Len(flagged) |->
            [column |-> flagged[i].name,
             count |-> NullCount(flagged[i].values),
             percentage |-> MissingPercentage(NullCount(flagged[i].values), df.nrows)]]

\* ------------------------------------------------------------ numeric insight
RECURSIVE DigitCount(_)
DigitCount(n) == IF n < 10 THEN 1 ELSE 1 + DigitCount(n \div 10)

RECURSIVE Pow10(_)
Pow10(d) == IF d = 0 THEN 1 ELSE 10 * Pow10(d - 1)

\* len(f"{q:.<d>f}") of the non-negative quotient q = <<num, den>>
FormatLen(q, d) ==
    LET scaled == (2 * q[1] * Pow10(d) + q[2]) \div (2 * q[2])
    IN  DigitCount(scaled \div Pow10(d)) + 1 + d

\* The insight text as textwrap sees it: the lengths of its whitespace-separated words.
generate_numeric_insight(column, series, beginner) ==
    LET mean == << Sum(series), Len(series) >>
        min_val == << SeqMin(series), 1 >>
        max_val == << SeqMax(series), 1 >>
    IN  IF beginner
        THEN << 4, 6, 5, Len(column) + 1,
                4, 6, 3, 6, FormatLen(mean, 1) + 1,
                6, 7, 4, 7, FormatLen(min_val, 1), 3, FormatLen(max_val, 1) + 1 >>
        ELSE << 3, Len(column) + 1, 3, 4, 2, FormatLen(mean, 2) + 1 >>

IdRatioNum == 95
IdRatioDen == 100

\* the name test without lower()
is_likely_identifier_case_sensitive(series, column_name, df) ==
    IF Contains(<< "i", "d" >>, column_name) \/ Contains(<< "u", "u", "i", "d" >>, column_name)
    THEN TRUE
    ELSE NUnique(series) * IdRatioDen > IdRatioNum * df.nrows

\* the ratio test alone
is_likely_identifier_ratio_only(series, column_name, df) ==
    NUnique(series) * IdRatioDen > IdRatioNum * df.nrows

is_likely_identifier(series, column_name, df) ==
    LET name == LowerStr(column_name)
    IN  IF Contains(<< "i", "d" >>, name) \/ Contains(<< "u", "u", "i", "d" >>, name)
        THEN TRUE
        ELSE NUnique(series) * IdRatioDen > IdRatioNum * df.nrows

Median(series) ==
    LET n == Len(series)
    IN  IF n % 2 = 1 THEN << 2 * Kth(series, (n + 1) \div 2), 2 >>
        ELSE << Kth(series, n \div 2) + Kth(series, n \div 2 + 1), 2 >>

\* Series.std() (ddof = 1), kept as its square; NaN for a single value
Std(series) ==
    LET n == Len(series)
        sq == Sum([i \in 1..n |-> series[i] * series[i]])
    IN  IF n < 2 THEN [nan |-> TRUE, sq_num |-> 0, sq_den |-> 1]
        ELSE [nan |-> FALSE, sq_num |-> n * sq - Sum(series) * Sum(series),
              sq_den |-> n * (n - 1)]

ColumnStats(col, series, beginner) ==
    [column |-> col,
     mean |-> << Sum(series), Len(series) >>,
     median |-> Median(series),
     min |-> SeqMin(series),
     max |-> SeqMax(series),
     std |-> Std(series),
     outlier_count |-> 0,
     insight |-> generate_numeric_insight(col, series, beginner),
     values |-> series]

\* if series.empty or is_likely_identifier(series, col, df): continue
Skipped(c, df) ==
    LET series == DropNa(c.values)
    IN  series = << >> \/ is_likely_identifier(series, c.name, df)

\* if len(results) >= max_columns: break
CapReached(results, max_columns) == Len(results) >= max_columns

RECURSIVE NumericLoop(_, _, _, _, _, _)
NumericLoop(df, cols, i, results, max_columns, beginner) ==
    IF i > Len(cols) THEN results
    ELSE IF Skipped(cols[i], df)
         THEN NumericLoop(df, cols, i + 1, results, max_columns, beginner)
         ELSE LET appended == Append(results,
                                ColumnStats(cols[i].name, DropNa(cols[i].values), beginner))
              IN  IF CapReached(appended, max_columns) THEN appended
                  ELSE NumericLoop(df, cols, i + 1, appended, max_columns, beginner)

analyze_numeric_columns(df, max_columns, beginner) ==
    NumericLoop(df, SelectNumber(df), 1, << >>, max_columns, beginner)

\* ------------------------------------------------------------ correlations
NaN == [nan |-> TRUE, num |-> 0, den2 |-> 0]

\* One entry of DataFrame.corr(): Pearson's coefficient over the rows where both
\* columns are non-null, cov / sqrt(vx * vy), NaN when either variance is zero.
Pearson(x, y) ==
    LET rows == {i \in 1..Len(x) : x[i] # NULL /\ y[i] # NULL}
        n == Cardinality(rows)
        F(i, a, b) == IF i \in rows THEN a[i] * b[i] ELSE 0
        G(i, a) == IF i \in rows THEN a[i] ELSE 0
        sx == Sum([i \in 1..Len(x) |-> G(i, x)])
        sy == Sum([i \in 1..Len(x) |-> G(i, y)])
        sxy == Sum([i \in 1..Len(x) |-> F(i, x, y)])
        sxx == Sum([i \in 1..Len(x) |-> F(i, x, x)])
        syy == Sum([i \in 1..Len(x) |-> F(i, y, y)])
        vx == n * sxx - sx * sx
        vy == n * syy - sy * sy
    IN  IF vx * vy = 0 THEN NaN
        ELSE [nan |-> FALSE, num |-> n * sxy - sx * sy, den2 |-> vx * vy]

\* numeric.corr()
Corr(numeric) ==
    [columns |-> [i \in 1..Len(numeric) |-> numeric[i].name],
     m |-> [i \in 1..Len(numeric) |->
              [j \in 1..Len(numeric) |-> Pearson(numeric[i].values, numeric[j].values)]]]

\* abs(r) >= threshold, the threshold a quotient <<t, d>> with d > 0
AbsAtLeast(r, threshold) ==
    /\ ~r.nan
    /\ \/ threshold[1] <= 0
       \/ r.num * r.num * threshold[2] * threshold[2]
            >= threshold[1] * threshold[1] * r.den2

Direction(r) == IF ~r.nan /\ r.num > 0 THEN "positive" ELSE "negative"

\* range(i, ...) in place of range(i + 1, ...)
FirstJ_from_i(i) == i

\* for j in range(i + 1, len(corr.columns))
FirstJ(i) == i + 1

RECURSIVE CorrLoop(_, _, _, _, _)
CorrLoop(corr, threshold, i, j, results) ==
    LET n == Len(corr.columns)
    IN  IF i > n THEN results
        ELSE IF j > n THEN CorrLoop(corr, threshold, i + 1, FirstJ(i + 1), results)
        ELSE IF AbsAtLeast(corr.m[i][j], threshold)
             THEN CorrLoop(corr, threshold, i, j + 1,
                           Append(results,
                                  [column1 |-> corr.columns[i],
                                   column2 |-> corr.columns[j],
                                   correlation |-> corr.m[i][j],
                                   direction |-> Direction(corr.m[i][j])]))
             ELSE CorrLoop(corr, threshold, i, j + 1, results)

find_correlations(df, threshold) ==
    LET numeric == SelectNumber(df)
    IN  IF Len(numeric) < 2 THEN << >>
        ELSE CorrLoop(Corr(numeric), threshold, 1, FirstJ(1), << >>)

\* > 2 in place of >= 2
get_correlation_matrix_above_two(df) ==
    LET numeric == SelectNumber(df)
    IN  IF Len(numeric) > 2 THEN Some(Corr(numeric)) ELSE None

get_correlation_matrix(df) ==
    LET numeric == SelectNumber(df)
    IN  IF Len(numeric) >= 2 THEN Some(Corr(numeric)) ELSE None

\* ------------------------------------------------------------ categorical
TopN == 10

\* seq[:n]
Slice(seq, n) ==
    IF n >= 0 THEN SubSeq(seq, 1, Min(n, Len(seq)))
    ELSE SubSeq(seq, 1, Max(0, Len(seq) + n))

\* the distinct non-null values in order of first appearance
RECURSIVE FirstSeen(_, _)
FirstSeen(values, seen) ==
    IF values = << >> THEN seen
    ELSE IF Head(values) = NULL \/ \E k \in 1..Len(seen) : seen[k] = Head(values)
         THEN FirstSeen(Tail(values), seen)
         ELSE FirstSeen(Tail(values), Append(seen, Head(values)))

\* stable insertion into a sequence sorted by descending count
RECURSIVE InsertByCount(_, _)
InsertByCount(e, sorted) ==
    IF sorted = << >> THEN << e >>
    ELSE IF e.count > Head(sorted).count THEN << e >> \o sorted
    ELSE << Head(sorted) >> \o InsertByCount(e, Tail(sorted))

RECURSIVE SortByCount(_, _)
SortByCount(entries, sorted) ==
    IF entries = << >> THEN sorted
    ELSE SortByCount(Tail(entries), InsertByCount(Head(entries), sorted))

\* Series.value_counts(): nulls dropped, descending by count
ValueCounts(values) ==
    LET seen == FirstSeen(values, << >>)
        counted == [k \in 1..Len(seen) |->
                      [value |-> seen[k],
                       count |-> Len(SelectSeq(values, LAMBDA v : v = seen[k]))]]
    IN  SortByCount(counted, << >>)

\* value_counts() without head(10)
TopValues_uncut(values) == ValueCounts(values)

\* .head(10)
TopValues(values) == Slice(ValueCounts(values), TopN)

analyze_categorical_columns(df, max_columns) ==
    LET cols == Slice(SelectObject(df), max_columns)
    IN  [i \in 1..Len(cols) |->
            [column |-> cols[i].name,
             unique_count |-> NUnique(cols[i].values),
             top_values |-> TopValues(cols[i].values)]]

\* ------------------------------------------------------------ textwrap.wrap
WrapWidth == 90

\* the chunks textwrap splits a text into: its words, one blank between two
Chunks(words) ==
    [k \in 1..(IF words = << >> THEN 0 ELSE 2 * Len(words) - 1) |->
        IF k % 2 = 1 THEN [len |-> words[(k + 1) \div 2], sp |-> FALSE]
        ELSE [len |-> 1, sp |-> TRUE]]

LineLen(cur) == Sum([k \in 1..Len(cur) |-> cur[k].len])

\* chunk.strip() == ''
Blank(chunk) == chunk.sp \/ chunk.len = 0

\* while chunks: if cur_len + l <= width: cur_line.append(chunks.pop()) else: break
RECURSIVE FillLine(_, _, _)
FillLine(chunks, cur, width) ==
    IF chunks # << >> /\ LineLen(cur) + Head(chunks).len <= width
    THEN FillLine(Tail(chunks), Append(cur, Head(chunks)), width)
    ELSE [rest |-> chunks, cur |-> cur]

\* _handle_long_word with break_long_words: the line takes what room it has left
HandleLongWord(st, width) ==
    IF st.rest # << >> /\ Head(st.rest).len > width
    THEN LET space_left == width - LineLen(st.cur)
         IN  [rest |-> << [len |-> Head(st.rest).len - space_left, sp |-> FALSE] >>
                         \o Tail(st.rest),
              cur |-> Append(st.cur, [len |-> space_left, sp |-> FALSE])]
    ELSE st

\* the last chunk of a line is dropped when it is blank
DropTrailingBlank(cur) ==
    IF cur # << >> /\ Blank(cur[Len(cur)]) THEN SubSeq(cur, 1, Len(cur) - 1) ELSE cur

\* _wrap_chunks: the number of lines produced
RECURSIVE WrapChunks(_, _, _)
WrapChunks(chunks, nlines, width) ==
    IF chunks = << >> THEN nlines
    ELSE LET start == IF Blank(Head(chunks)) /\ nlines > 0 THEN Tail(chunks) ELSE chunks
             st == HandleLongWord(FillLine(start, << >>, width), width)
             cur == DropTrailingBlank(st.cur)
         IN  WrapChunks(st.rest, IF cur # << >> THEN nlines + 1 ELSE nlines, width)

\* len(textwrap.wrap(stat["insight"], 90))
WrapLines(insight) == WrapChunks(Chunks(insight), 0, WrapWidth)

\* ------------------------------------------------------------ PDF layout
Pt(n) == 100 * n

\* A4 is 595.28 x 841.89 points
PageHeight == 84189
TopMargin == Pt(50)
LowSpace == Pt(250)
HistogramHeight == Pt(120)
HeatmapHeight == Pt(300)

PageTop == PageHeight - TopMargin

\* ------------------------------------------------------------ tables
Digits == << "1", "2", "3", "4", "5", "6", "7", "8", "9" >>
NumVals == {0, 1, NULL}
TextVals == {1, 2, NULL}
Kinds == {"num", "id", "txt", "bool"}

NameFor(kind, i) ==
    CASE kind = "num" -> << "d", "i", Digits[i] >>
      [] kind = "id" -> IF i % 2 = 1 THEN << "p", "a", "I", "D", Digits[i] >>
                        ELSE << "U", "u", "i", "d", Digits[i] >>
      [] kind = "txt" -> << "t", Digits[i] >>
      [] OTHER -> << "b", Digits[i] >>

DtypeFor(kind) ==
    CASE kind \in {"num", "id"} -> "float64"
      [] kind = "txt" -> "object"
      [] OTHER -> "bool"

ValuesFor(kind, r) ==
    CASE kind \in {"num", "id"} -> [1..r -> NumVals]
      [] kind = "txt" -> [1..r -> TextVals]
      [] OTHER -> {[i \in 1..r |-> 1]}

ColumnsAt(i, r) ==
    UNION {{[name |-> NameFor(k, i), dtype |-> DtypeFor(k), values |-> v] :
                v \in ValuesFor(k, r)} : k \in Kinds}

RECURSIVE ColumnSeqs(_, _)
ColumnSeqs(r, c) ==
    IF c = 0 THEN {<< >>}
    ELSE {Append(cols, col) : cols \in ColumnSeqs(r, c - 1), col \in ColumnsAt(c, r)}

\* every table of at most MaxCols columns and MaxCells cells over NumVals and TextVals
TinyTables ==
    UNION {UNION {{[nrows |-> r, columns |-> cols] : cols \in ColumnSeqs(r, c)} :
                     c \in {k \in 0..MaxCols : r * k <= MaxCells /\ (k = 0 => r = 0)}} :
              r \in 0..MaxCells}

Col(name, dtype, values) == [name |-> name, dtype |-> dtype, values |-> values]

\* 100 rows, user_id holding 100 unique integers
TableIds ==
    [nrows |-> 100,
     columns |-> << Col(<< "u", "s", "e", "r", "_", "i", "d" >>, "int64",
                        [i \in 1..100 |-> i]),
                    Col(<< "p", "l", "a", "n" >>, "object",
                        [i \in 1..100 |-> i % 3]) >>]

\* 20 rows: 19 distinct values in one column, 20 in another, an identifier name
TableRatio ==
    [nrows |-> 20,
     columns |-> << Col(<< "v", "a", "l" >>, "int64", [i \in 1..20 |-> Min(i, 19)]),
                    Col(<< "k", "e", "y" >>, "int64", [i \in 1..20 |-> i]),
                    Col(<< "r", "o", "w", "_", "I", "D" >>, "int64", [i \in 1..20 |-> i % 4]),
                    Col(<< "t", "a", "g" >>, "object", [i \in 1..20 |-> 1]) >>]

\* two numeric columns, perfectly anti-correlated
TableAnti ==
    [nrows |-> 3,
     columns |-> << Col(<< "u", "p" >>, "int64", << 0, 1, 2 >>),
                    Col(<< "d", "o", "w", "n" >>, "int64", << 2, 1, 0 >>) >>]

\* three numeric columns with coefficients -0.5, 0.5, 0.5 and a constant one
TableHalf ==
    [nrows |-> 3,
     columns |-> << Col(<< "x" >>, "int64", << 0, 0, 1 >>),
                    Col(<< "n", "o", "t", "e" >>, "object", << 1, NULL, 1 >>),
                    Col(<< "y" >>, "int64", << 0, 1, 0 >>),
                    Col(<< "z" >>, "float64", << 0, 1, 1 >>),
                    Col(<< "k" >>, "int64", << 1, 1, 1 >>) >>]

\* a text column of 11 distinct values, a date column, a numeric column with nulls
TableCategories ==
    [nrows |-> 12,
     columns |-> << Col(<< "c", "i", "t", "y" >>, "object",
                        << 1, 3, 3, 4, 5, 6, 7, 8, 9, 10, 11, 12 >>),
                    Col(<< "d", "a", "y" >>, "object", [i \in 1..12 |-> 2]),
                    Col(<< "a", "g", "e" >>, "float64",
                        << 0, 1, 1, 2, NULL, 2, 2, 3, 3, NULL, 3, 3 >>),
                    Col(<< "k", "i", "n", "d" >>, "object", [i \in 1..12 |-> i % 2]) >>]

\* one numeric column only
TableSingle ==
    [nrows |-> 4,
     columns |-> << Col(<< "n", "a", "m", "e" >>, "object", << 1, 3, 3, 4 >>),
                    Col(<< "a", "g", "e" >>, "int64", << 3, 3, 4, 5 >>) >>]

\* no numeric column at all
TableText ==
    [nrows |-> 2,
     columns |-> << Col(<< "n", "a", "m", "e" >>, "object", << 1, 3 >>) >>]

Scenarios ==
    {TableIds, TableRatio, TableAnti, TableHalf, TableCategories, TableSingle, TableText}

Tables == TinyTables \cup Scenarios

\* ------------------------------------------------------------ state
VARIABLES
    pc,                \* where the run (or the call) stands
    use_sample,        \* app.py: the sample checkbox
    uploaded_file,     \* app.py: None or Some(file name)
    explain_like_new,  \* app.py: the beginner toggle
    df,                \* None or Some(table)
    dataset_name,
    shown,             \* what the shell has displayed, in order
    calls,             \* the analyzer functions invoked, in order
    load_error,        \* "none", or why loading failed
    args,              \* the arguments of the analyzer calls
    overview, missing, numeric_analysis, correlations, corr_matrix, categories,
    y, page, canvas,   \* generate_pdf_report: cursor, page number, drawing operations
    stat_i,            \* generate_pdf_report: index of the numeric record being drawn
    lines_left,        \* generate_pdf_report: wrapped insight lines still to draw
    pdf                \* None or Some(the saved document)

vars ==
    << pc, use_sample, uploaded_file, explain_like_new, df, dataset_name, shown, calls,
       load_error, args, overview, missing, numeric_analysis, correlations, corr_matrix,
       categories, y, page, canvas, stat_i, lines_left, pdf >>

inputVars == << use_sample, uploaded_file, explain_like_new >>
resultVars == << overview, missing, numeric_analysis, correlations, corr_matrix, categories >>
pdfVars == << y, page, canvas, stat_i, lines_left, pdf >>

\* the defaults of the analyzers' keyword arguments
DefaultNumericCap == 3
DefaultCategoricalCap == 2
DefaultThreshold == << 1, 2 >>
DefaultArgs ==
    [max_columns |-> DefaultNumericCap, beginner |-> TRUE,
     threshold |-> DefaultThreshold, cat_columns |-> DefaultCategoricalCap]

Caps == 0..(MaxCols + 1)
Thresholds == {<< 0 - 1, 2 >>, << 0, 1 >>, << 1, 2 >>, << 1, 1 >>, << 3, 2 >>}

NoResults ==
    /\ overview = None
    /\ missing = << >>
    /\ numeric_analysis = << >>
    /\ correlations = << >>
    /\ corr_matrix = None
    /\ categories = << >>

NoPdf ==
    /\ y = PageTop
    /\ page = 1
    /\ canvas = << >>
    /\ stat_i = 0
    /\ lines_left = 0
    /\ pdf = None

\* ------------------------------------------------------------ analyzer calls
\* One call of one analyzer on a table, with any arguments.
InitCalls ==
    /\ pc = "call"
    /\ use_sample = FALSE
    /\ uploaded_file = None
    /\ explain_like_new = TRUE
    /\ df \in {Some(t) : t \in Tables}
    /\ dataset_name = << "t" >>
    /\ shown = << >>
    /\ calls = << >>
    /\ load_error = "none"
    /\ args = DefaultArgs
    /\ NoResults
    /\ NoPdf

Returned(fn) ==
    /\ pc' = "returned"
    /\ calls' = Append(calls, fn)
    /\ UNCHANGED << inputVars, df, dataset_name, shown, load_error, pdfVars >>

CallOverview ==
    /\ pc = "call"
    /\ overview' = Some(get_dataset_overview(df[1]))
    /\ Returned("get_dataset_overview")
    /\ UNCHANGED << args, missing, numeric_analysis, correlations, corr_matrix, categories >>

CallMissing ==
    /\ pc = "call"
    /\ missing' = check_missing_data(df[1])
    /\ Returned("check_missing_data")
    /\ UNCHANGED << args, overview, numeric_analysis, correlations, corr_matrix, categories >>

CallNumeric ==
    /\ pc = "call"
    /\ \E cap \in Caps, b \in BOOLEAN :
          /\ args' = [args EXCEPT !.max_columns = cap, !.beginner = b]
          /\ numeric_analysis' = analyze_numeric_columns(df[1], cap, b)
    /\ Returned("analyze_numeric_columns")
    /\ UNCHANGED << overview, missing, correlations, corr_matrix, categories >>

CallCorrelations ==
    /\ pc = "call"
    /\ \E t \in Thresholds :
          /\ args' = [args EXCEPT !.threshold = t]
          /\ correlations' = find_correlations(df[1], t)
    /\ Returned("find_correlations")
    /\ UNCHANGED << overview, missing, numeric_analysis, corr_matrix, categories >>

CallMatrix ==
    /\ pc = "call"
    /\ corr_matrix' = get_correlation_matrix(df[1])
    /\ Returned("get_correlation_matrix")
    /\ UNCHANGED << args, overview, missing, numeric_analysis, correlations, categories >>

CallCategorical ==
    /\ pc = "call"
    /\ \E cap \in Caps :
          /\ args' = [args EXCEPT !.cat_columns = cap]
          /\ categories' = analyze_categorical_columns(df[1], cap)
    /\ Returned("analyze_categorical_columns")
    /\ UNCHANGED << overview, missing, numeric_analysis, correlations, corr_matrix >>

NextCalls ==
    \/ CallOverview
    \/ CallMissing
    \/ CallNumeric
    \/ CallCorrelations
    \/ CallMatrix
    \/ CallCategorical

SpecCalls == InitCalls /\ [][NextCalls]_vars

\* ------------------------------------------------------------ generate_pdf_report
Op(op, block, stat, at, h) ==
    [op |-> op, block |-> block, stat |-> stat, page |-> page, y |-> y, at |-> at, h |-> h]

\* new_page(): c.showPage(); y = height - 50
ShowPage(block, stat) == Op("showPage", block, stat, y, 0)

\* title, dataset name
PdfTitle ==
    /\ pc = "pdf_title"
    /\ canvas' = canvas \o << Op("drawString", "title", 0, y, 0),
                              Op("drawString", "title", 0, y - Pt(25), 0) >>
    /\ y' = y - Pt(25) - Pt(30)
    /\ pc' = "pdf_overview"
    /\ UNCHANGED << inputVars, df, dataset_name, shown, calls, load_error, args, resultVars,
                    page, stat_i, lines_left, pdf >>

\* rows, columns, date range
PdfOverview ==
    /\ pc = "pdf_overview"
    /\ canvas' = canvas \o << Op("drawString", "overview", 0, y, 0),
                              Op("drawString", "overview", 0, y - Pt(15), 0),
                              Op("drawString", "overview", 0, y - Pt(15) - Pt(15), 0) >>
    /\ y' = y - Pt(15) - Pt(15) - Pt(30)
    /\ pc' = "pdf_numeric"
    /\ UNCHANGED << inputVars, df, dataset_name, shown, calls, load_error, args, resultVars,
                    page, stat_i, lines_left, pdf >>

\* the "Numeric Insights" heading
PdfNumericHeading ==
    /\ pc = "pdf_numeric"
    /\ canvas' = Append(canvas, Op("drawString", "numeric", 0, y, 0))
    /\ y' = y - Pt(20)
    /\ stat_i' = 1
    /\ pc' = "pdf_stat"
    /\ UNCHANGED << inputVars, df, dataset_name, shown, calls, load_error, args, resultVars,
                    page, lines_left, pdf >>

\* if y < 250: new_page()
NeedsNewPage(cursor) == cursor < LowSpace

\* for stat in numeric: the low-space check and the column heading
PdfStatHeading ==
    /\ pc = "pdf_stat"
    /\ stat_i <= Len(numeric_analysis)
    /\ LET brk == NeedsNewPage(y)
           top == IF brk THEN PageTop ELSE y
           pg == IF brk THEN page + 1 ELSE page
       IN  /\ canvas' = canvas
                          \o (IF brk THEN << ShowPage("numeric", stat_i) >> ELSE << >>)
                          \o << [Op("drawString", "numeric", stat_i, top, 0)
                                   EXCEPT !.page = pg, !.y = top] >>
           /\ page' = pg
           /\ y' = top - Pt(15)
    /\ lines_left' = WrapLines(numeric_analysis[stat_i].insight)
    /\ pc' = "pdf_line"
    /\ UNCHANGED << inputVars, df, dataset_name, shown, calls, load_error, args, resultVars,
                    stat_i, pdf >>

\* for line in textwrap.wrap(stat["insight"], 90)
PdfLine ==
    /\ pc = "pdf_line"
    /\ lines_left > 0
    /\ canvas' = Append(canvas, Op("drawString", "numeric", stat_i, y, 0))
    /\ y' = y - Pt(14)
    /\ lines_left' = lines_left - 1
    /\ UNCHANGED << inputVars, df, dataset_name, shown, calls, load_error, args, resultVars,
                    pc, page, stat_i, pdf >>

\* the histogram
PdfImage ==
    /\ pc = "pdf_line"
    /\ lines_left = 0
    /\ canvas' = Append(canvas,
                        Op("drawImage", "numeric", stat_i, y - HistogramHeight, HistogramHeight))
    /\ y' = y - Pt(150)
    /\ stat_i' = stat_i + 1
    /\ pc' = "pdf_stat"
    /\ UNCHANGED << inputVars, df, dataset_name, shown, calls, load_error, args, resultVars,
                    page, lines_left, pdf >>

\* if corr_matrix is not None: new page, heading, heatmap
PdfHeatmap ==
    /\ pc = "pdf_stat"
    /\ stat_i > Len(numeric_analysis)
    /\ corr_matrix # None
    /\ canvas' = canvas
                   \o << ShowPage("heatmap", 0),
                         [Op("drawString", "heatmap", 0, PageTop, 0)
                            EXCEPT !.page = page + 1, !.y = PageTop],
                         [Op("drawImage", "heatmap", 0, PageTop - Pt(20) - HeatmapHeight,
                             HeatmapHeight)
                            EXCEPT !.page = page + 1, !.y = PageTop - Pt(20)] >>
    /\ page' = page + 1
    /\ y' = PageTop - Pt(20)
    /\ pc' = "pdf_save"
    /\ UNCHANGED << inputVars, df, dataset_name, shown, calls, load_error, args, resultVars,
                    stat_i, lines_left, pdf >>

PdfNoHeatmap ==
    /\ pc = "pdf_stat"
    /\ stat_i > Len(numeric_analysis)
    /\ corr_matrix = None
    /\ pc' = "pdf_save"
    /\ UNCHANGED << inputVars, df, dataset_name, shown, calls, load_error, args, resultVars,
                    pdfVars >>

\* c.save(); return buffer
PdfSave ==
    /\ pc = "pdf_save"
    /\ pdf' = Some([pages |-> page, operations |-> Len(canvas)])
    /\ pc' = "pdf_returned"
    /\ UNCHANGED << inputVars, df, dataset_name, shown, calls, load_error, args, resultVars,
                    y, page, canvas, stat_i, lines_left >>

NextReport ==
    \/ PdfTitle
    \/ PdfOverview
    \/ PdfNumericHeading
    \/ PdfStatHeading
    \/ PdfLine
    \/ PdfImage
    \/ PdfHeatmap
    \/ PdfNoHeatmap
    \/ PdfSave

\* the insight texts of the report's inputs, as word lengths
InsightPool == {<< >>, << 44, 45 >>, << 45, 45 >>, << 91 >>, << 3400 >>}

StatWith(insight) ==
    [ColumnStats(<< "a", "g", "e" >>, << 3, 3, 4, 5 >>, TRUE) EXCEPT !.insight = insight]

NumericInputs ==
    UNION {[1..k -> {StatWith(w) : w \in InsightPool}] : k \in 0..MaxRecords}

\* generate_pdf_report called on any numeric records, with or without a matrix
InitReport ==
    /\ pc = "pdf_title"
    /\ use_sample = FALSE
    /\ uploaded_file = None
    /\ explain_like_new = TRUE
    /\ df = None
    /\ dataset_name = << "t" >>
    /\ shown = << >>
    /\ calls = << "generate_pdf_report" >>
    /\ load_error = "none"
    /\ args = DefaultArgs
    /\ overview = Some(get_dataset_overview(TableSingle))
    /\ missing = << >>
    /\ numeric_analysis \in NumericInputs
    /\ correlations = << >>
    /\ corr_matrix \in {None, get_correlation_matrix(TableAnti)}
    /\ categories = << >>
    /\ NoPdf

SpecReport == InitReport /\ [][NextReport]_vars

\* ------------------------------------------------------------ app.py: one run of the script
SampleName == << "S", "a", "m", "p", "l", "e" >>

FileNames ==
    {<< "a", ".", "c", "s", "v" >>, << "a", ".", "C", "S", "V" >>,
     << "a", ".", "x", "l", "s", "x" >>, << "a", ".", "x", "l", "s" >>,
     << "a", ".", "t", "x", "t" >>}

\* the tables a file or the sample may hold
AppTables == Scenarios

IsCsv(name) == EndsWith(LowerStr(name), << ".", "c", "s", "v" >>)
IsExcel(name) ==
    \/ EndsWith(LowerStr(name), << ".", "x", "l", "s", "x" >>)
    \/ EndsWith(LowerStr(name), << ".", "x", "l", "s" >>)

Init ==
    /\ pc = "start"
    /\ use_sample \in BOOLEAN
    /\ uploaded_file \in {None} \cup {Some(n) : n \in FileNames}
    /\ explain_like_new \in BOOLEAN
    /\ df = None
    /\ dataset_name = << >>
    /\ shown = << >>
    /\ calls = << >>
    /\ load_error = "none"
    /\ args = DefaultArgs
    /\ NoResults
    /\ NoPdf

\* the run carries on without st.stop()
AfterStop_falls_through == "content"

\* st.stop(): the script run ends here
AfterStop == "halted"

Loaded(t, name, messages) ==
    /\ df' = Some(t)
    /\ dataset_name' = name
    /\ shown' = shown \o messages
    /\ pc' = "content"
    /\ UNCHANGED << inputVars, calls, load_error, args, resultVars, pdfVars >>

Failed(why, messages) ==
    /\ load_error' = why
    /\ shown' = shown \o messages
    /\ UNCHANGED << inputVars, df, dataset_name, calls, args, resultVars, pdfVars >>

LoadSample ==
    /\ pc = "start"
    /\ use_sample
    /\ \E t \in AppTables : Loaded(t, SampleName, << "info: using sample dataset" >>)

\* pd.read_csv of the sample raises, outside any try: the run ends with the exception shown
LoadSampleRaises ==
    /\ pc = "start"
    /\ use_sample
    /\ Failed("sample_unreadable", << "exception" >>)
    /\ pc' = "halted"

LoadCsv ==
    /\ pc = "start"
    /\ ~use_sample
    /\ uploaded_file # None
    /\ IsCsv(uploaded_file[1])
    /\ \E t \in AppTables : Loaded(t, uploaded_file[1], << >>)

\* UnicodeDecodeError on the first read, the Latin-1 read succeeds
LoadCsvLatin1 ==
    /\ pc = "start"
    /\ ~use_sample
    /\ uploaded_file # None
    /\ IsCsv(uploaded_file[1])
    /\ \E t \in AppTables : Loaded(t, uploaded_file[1], << "info: loaded CSV using Latin-1" >>)

LoadExcel ==
    /\ pc = "start"
    /\ ~use_sample
    /\ uploaded_file # None
    /\ ~IsCsv(uploaded_file[1])
    /\ IsExcel(uploaded_file[1])
    /\ \E t \in AppTables : Loaded(t, uploaded_file[1], << "info: loaded Excel file" >>)

\* any other exception of the first read, or any exception of the Latin-1 read
LoadFailed ==
    /\ pc = "start"
    /\ ~use_sample
    /\ uploaded_file # None
    /\ IsCsv(uploaded_file[1]) \/ IsExcel(uploaded_file[1])
    /\ \E why \in {"read_error"}
                    \cup (IF IsCsv(uploaded_file[1]) THEN {"latin1_read_error"} ELSE {}) :
          Failed(why, << "error: failed to read the uploaded file", "exception" >>)
    /\ pc' = AfterStop

LoadUnsupported ==
    /\ pc = "start"
    /\ ~use_sample
    /\ uploaded_file # None
    /\ ~IsCsv(uploaded_file[1])
    /\ ~IsExcel(uploaded_file[1])
    /\ Failed("unsupported", << "error: unsupported file type" >>)
    /\ pc' = AfterStop

NoFile ==
    /\ pc = "start"
    /\ ~use_sample
    /\ uploaded_file = None
    /\ shown' = Append(shown, "info: use the sample dataset")
    /\ pc' = "content"
    /\ UNCHANGED << inputVars, df, dataset_name, calls, load_error, args, resultVars, pdfVars >>

\* if df is not None
ContentLoaded ==
    /\ pc = "content"
    /\ df # None
    /\ shown' = shown \o << "success: loaded", "preview" >>
    /\ pc' = "overview"
    /\ UNCHANGED << inputVars, df, dataset_name, calls, load_error, args, resultVars, pdfVars >>

ContentEmpty ==
    /\ pc = "content"
    /\ df = None
    /\ shown' = Append(shown, "info: upload a data file")
    /\ pc' = "done"
    /\ UNCHANGED << inputVars, df, dataset_name, calls, load_error, args, resultVars, pdfVars >>

AppOverview ==
    /\ pc = "overview"
    /\ overview' = Some(get_dataset_overview(df[1]))
    /\ calls' = Append(calls, "get_dataset_overview")
    /\ shown' = Append(shown, "overview")
    /\ pc' = "quality"
    /\ UNCHANGED << inputVars, df, dataset_name, load_error, args, missing, numeric_analysis,
                    correlations, corr_matrix, categories, pdfVars >>

AppQuality ==
    /\ pc = "quality"
    /\ missing' = check_missing_data(df[1])
    /\ calls' = Append(calls, "check_missing_data")
    /\ shown' = Append(shown, IF missing' # << >> THEN "warning: missing values"
                              ELSE "success: no missing data")
    /\ pc' = "numeric"
    /\ UNCHANGED << inputVars, df, dataset_name, load_error, args, overview, numeric_analysis,
                    correlations, corr_matrix, categories, pdfVars >>

AppNumeric ==
    /\ pc = "numeric"
    /\ args' = [args EXCEPT !.max_columns = DefaultNumericCap, !.beginner = explain_like_new]
    /\ numeric_analysis' = analyze_numeric_columns(df[1], DefaultNumericCap, explain_like_new)
    /\ calls' = Append(calls, "analyze_numeric_columns")
    /\ shown' = Append(shown, IF numeric_analysis' # << >> THEN "numeric insights"
                              ELSE "info: no usable numeric columns")
    /\ pc' = "correlation"
    /\ UNCHANGED << inputVars, df, dataset_name, load_error, overview, missing,
                    correlations, corr_matrix, categories, pdfVars >>

\* find_correlations(df); the heatmap's matrix is fetched only when pairs were found
AppCorrelation ==
    /\ pc = "correlation"
    /\ correlations' = find_correlations(df[1], DefaultThreshold)
    /\ IF correlations' # << >>
       THEN /\ corr_matrix' = get_correlation_matrix(df[1])
            /\ calls' = calls \o << "find_correlations", "get_correlation_matrix" >>
            /\ shown' = shown \o (IF corr_matrix' # None THEN << "correlations", "heatmap" >>
                                  ELSE << "correlations" >>)
       ELSE /\ corr_matrix' = corr_matrix
            /\ calls' = Append(calls, "find_correlations")
            /\ shown' = Append(shown, "info: no strong relationships")
    /\ pc' = "categories"
    /\ UNCHANGED << inputVars, df, dataset_name, load_error, args, overview, missing,
                    numeric_analysis, categories, pdfVars >>

AppCategorical ==
    /\ pc = "categories"
    /\ categories' = analyze_categorical_columns(df[1], DefaultCategoricalCap)
    /\ calls' = Append(calls, "analyze_categorical_columns")
    /\ shown' = shown \o [k \in 1..Len(categories') |-> "bar chart"]
    /\ pc' = "report"
    /\ UNCHANGED << inputVars, df, dataset_name, load_error, args, overview, missing,
                    numeric_analysis, correlations, corr_matrix, pdfVars >>

\* corr_matrix = get_correlation_matrix(df); generate_pdf_report(...) is entered
AppReport ==
    /\ pc = "report"
    /\ corr_matrix' = get_correlation_matrix(df[1])
    /\ calls' = calls \o << "get_correlation_matrix", "generate_pdf_report" >>
    /\ y' = PageTop
    /\ page' = 1
    /\ canvas' = << >>
    /\ pc' = "pdf_title"
    /\ UNCHANGED << inputVars, df, dataset_name, shown, load_error, args, overview, missing,
                    numeric_analysis, correlations, categories, stat_i, lines_left, pdf >>

AppDownload ==
    /\ pc = "pdf_returned"
    /\ df # None
    /\ shown' = shown \o << "download button", "success: analysis complete" >>
    /\ pc' = "done"
    /\ UNCHANGED << inputVars, df, dataset_name, calls, load_error, args, resultVars, pdfVars >>

Next ==
    \/ LoadSample
    \/ LoadSampleRaises
    \/ LoadCsv
    \/ LoadCsvLatin1
    \/ LoadExcel
    \/ LoadFailed
    \/ LoadUnsupported
    \/ NoFile
    \/ ContentLoaded
    \/ ContentEmpty
    \/ AppOverview
    \/ AppQuality
    \/ AppNumeric
    \/ AppCorrelation
    \/ AppCategorical
    \/ AppReport
    \/ NextReport
    \/ AppDownload

Spec == Init /\ [][Next]_vars

\* ------------------------------------------------------------ properties of the analyzer calls
After(fn) == pc = "returned" /\ calls = << fn >>

Table == df[1]
NumericColumns == SelectSeq(Table.columns, LAMBDA c : c.dtype \in {"int64", "float64"})
TextColumns == SelectSeq(Table.columns, LAMBDA c : c.dtype = "object")
ColumnNamed(name) == CHOOSE c \in {Table.columns[i] : i \in 1..Len(Table.columns)} : c.name = name
NonNull(c) == {i \in 1..Len(c.values) : c.values[i] # NULL}
Distinct(c) == {c.values[i] : i \in NonNull(c)}
Nulls(c) == Cardinality({i \in 1..Len(c.values) : c.values[i] = NULL})

\* the name, lower-cased, contains "id" (and so whenever it contains "uuid")
IdName(name) ==
    \E i \in 1..(Len(name) - 1) :
        /\ name[i] \in {"i", "I"}
        /\ name[i + 1] \in {"d", "D"}

\* distinct non-null values / row count > 0.95
HighRatio(c) == 20 * Cardinality(Distinct(c)) > 19 * Table.nrows

Eligible(c) == NonNull(c) # {} /\ ~IdName(c.name) /\ ~HighRatio(c)

\* C1: the sequence analyze_numeric_columns returns is never longer than max_columns,
\* for every cap including 0.
C1_LengthWithinCap ==
    After("analyze_numeric_columns") => Len(numeric_analysis) <= args.max_columns

\* C2: no record of analyze_numeric_columns is for a column whose name contains "id" or
\* "uuid" (any case), whose distinct/rows ratio exceeds 0.95, or that is empty after
\* dropping nulls; the 100-row table with 100 unique user_id values yields no record for it.
C2_NoIdentifierRecord ==
    After("analyze_numeric_columns") =>
        /\ \A k \in 1..Len(numeric_analysis) :
              LET c == ColumnNamed(numeric_analysis[k].column)
              IN  /\ ~IdName(c.name)
                  /\ ~HighRatio(c)
                  /\ NonNull(c) # {}
                  /\ c.dtype \in {"int64", "float64"}
        /\ Table = TableIds =>
              \A k \in 1..Len(numeric_analysis) :
                  numeric_analysis[k].column # << "u", "s", "e", "r", "_", "i", "d" >>

C2_Witness ==
    /\ After("analyze_numeric_columns")
    /\ Len(numeric_analysis) >= 1
    /\ \E i \in 1..Len(NumericColumns) :
          /\ IdName(NumericColumns[i].name)
          /\ NonNull(NumericColumns[i]) # {}
          /\ ~HighRatio(NumericColumns[i])
    /\ \E i \in 1..Len(NumericColumns) :
          ~IdName(NumericColumns[i].name) /\ HighRatio(NumericColumns[i])

\* abs(r) >= t for r = num / sqrt(den2) and t = <<n, d>>
ClaimAtLeast(r, t) ==
    /\ ~r.nan
    /\ \/ t[1] <= 0
       \/ t[2] * t[2] * r.num * r.num >= t[1] * t[1] * r.den2

PairIndex(e) ==
    << CHOOSE i \in 1..Len(NumericColumns) : NumericColumns[i].name = e.column1,
       CHOOSE j \in 1..Len(NumericColumns) : NumericColumns[j].name = e.column2 >>

\* C3: find_correlations returns exactly the pairs (i, j), i < j, of numeric columns whose
\* absolute coefficient is >= threshold, in upper-triangular order: no pair in both
\* orders, none repeated, no column paired with itself.
C3_ExactlyStrongPairs ==
    After("find_correlations") =>
        LET n == Len(NumericColumns)
            names == {NumericColumns[i].name : i \in 1..n}
            coef(i, j) == Pearson(NumericColumns[i].values, NumericColumns[j].values)
        IN  /\ \A k \in 1..Len(correlations) :
                  /\ correlations[k].column1 \in names
                  /\ correlations[k].column2 \in names
                  /\ correlations[k].column1 # correlations[k].column2
                  /\ PairIndex(correlations[k])[1] < PairIndex(correlations[k])[2]
                  /\ correlations[k].correlation
                        = coef(PairIndex(correlations[k])[1], PairIndex(correlations[k])[2])
                  /\ ClaimAtLeast(correlations[k].correlation, args.threshold)
            /\ \A k \in 1..(Len(correlations) - 1) :
                  LET a == PairIndex(correlations[k])
                      b == PairIndex(correlations[k + 1])
                  IN  a[1] < b[1] \/ (a[1] = b[1] /\ a[2] < b[2])
            /\ \A i \in 1..n, j \in 1..n :
                  (i < j /\ ClaimAtLeast(coef(i, j), args.threshold)) =>
                      \E k \in 1..Len(correlations) : PairIndex(correlations[k]) = << i, j >>

C3_Witness ==
    /\ After("find_correlations")
    /\ Table = TableHalf
    /\ args.threshold = << 1, 2 >>
    /\ Len(correlations) = 3

IsOne(r) == ~r.nan /\ r.num > 0 /\ r.num * r.num = r.den2

MatrixShape(matrix) ==
    LET n == Len(NumericColumns)
    IN  /\ matrix.columns = [i \in 1..n |-> NumericColumns[i].name]
        /\ DOMAIN matrix.m = 1..n
        /\ \A i \in 1..n : DOMAIN matrix.m[i] = 1..n
        /\ \A i \in 1..n, j \in 1..n : matrix.m[i][j] = matrix.m[j][i]

AbsentMeansNoPairs ==
    (After("find_correlations") /\ get_correlation_matrix(Table) = None) => correlations = << >>

\* C4 as stated: the matrix is None with fewer than two numeric columns, and otherwise
\* square over all numeric columns, symmetric and of unit diagonal; when it is None,
\* find_correlations returns an empty sequence.
C4_UnitDiagonal ==
    /\ AbsentMeansNoPairs
    /\ After("get_correlation_matrix") =>
          IF Len(NumericColumns) < 2 THEN corr_matrix = None
          ELSE /\ corr_matrix # None
               /\ MatrixShape(corr_matrix[1])
               /\ \A i \in 1..Len(NumericColumns) : IsOne(corr_matrix[1].m[i][i])

\* C4 as amended: the diagonal entry is 1 for a column with at least two distinct non-null
\* values and NaN for any other column; the rest as stated.
C4_MatrixWellFormed ==
    /\ AbsentMeansNoPairs
    /\ After("get_correlation_matrix") =>
          IF Len(NumericColumns) < 2 THEN corr_matrix = None
          ELSE /\ corr_matrix # None
               /\ MatrixShape(corr_matrix[1])
               /\ \A i \in 1..Len(NumericColumns) :
                     IF Cardinality(Distinct(NumericColumns[i])) >= 2
                     THEN IsOne(corr_matrix[1].m[i][i])
                     ELSE corr_matrix[1].m[i][i].nan

C4_Witness ==
    /\ After("get_correlation_matrix")
    /\ corr_matrix # None
    /\ \E i \in 1..Len(NumericColumns) : IsOne(corr_matrix[1].m[i][i])
    /\ \E i \in 1..Len(NumericColumns) : corr_matrix[1].m[i][i].nan

\* C5: check_missing_data returns one record per column with a nonzero null count, in
\* table order, none for a column without nulls; count is the null count and percentage
\* is 100 * count / total_rows; a table without missing values yields the empty sequence.
C5_MissingRecords ==
    After("check_missing_data") =>
        LET withNulls == SelectSeq(Table.columns, LAMBDA c : Nulls(c) # 0)
        IN  /\ Len(missing) = Len(withNulls)
            /\ \A k \in 1..Len(missing) :
                  /\ missing[k].column = withNulls[k].name
                  /\ missing[k].count = Nulls(withNulls[k])
                  /\ missing[k].count > 0
                  /\ missing[k].percentage[2] # 0
                  /\ missing[k].percentage[1] * Table.nrows
                        = 100 * missing[k].count * missing[k].percentage[2]
            /\ (\A i \in 1..Len(Table.columns) : Nulls(Table.columns[i]) = 0) => missing = << >>

C5_Witness ==
    /\ After("check_missing_data")
    /\ Len(missing) >= 1
    /\ Len(missing) < Len(Table.columns)
    /\ \E k \in 1..Len(missing) : missing[k].count < Table.nrows

\* C6: analyze_categorical_columns returns at most max_columns summaries, for the first
\* text-typed columns in table order; each frequency table has at most 10 entries in
\* descending order of count.
C6_CategoricalWithinCap ==
    After("analyze_categorical_columns") =>
        /\ Len(categories) <= args.cat_columns
        /\ Len(categories) <= Len(TextColumns)
        /\ Len(categories) >= IF args.cat_columns <= Len(TextColumns)
                              THEN args.cat_columns ELSE Len(TextColumns)
        /\ \A k \in 1..Len(categories) :
              /\ categories[k].column = TextColumns[k].name
              /\ Len(categories[k].top_values) <= 10
              /\ \A e \in 1..(Len(categories[k].top_values) - 1) :
                    categories[k].top_values[e].count >= categories[k].top_values[e + 1].count

C6_Witness ==
    /\ After("analyze_categorical_columns")
    /\ Len(TextColumns) > args.cat_columns
    /\ Len(categories) = 2
    /\ Cardinality(Distinct(TextColumns[1])) > 10
    /\ Len(categories[1].top_values) = 10
    /\ categories[1].top_values[1].count > categories[1].top_values[2].count

OneNumericColumn == Len(NumericColumns) = 1

MatrixAbsentForOne ==
    (After("get_correlation_matrix") /\ OneNumericColumn) => corr_matrix = None

\* C8 as stated: with exactly one numeric column the matrix is None and
\* analyze_numeric_columns (cap 3) returns exactly one record, for that column.
C8_OneRecord ==
    /\ MatrixAbsentForOne
    /\ (After("analyze_numeric_columns") /\ OneNumericColumn /\ args.max_columns = 3) =>
          /\ Len(numeric_analysis) = 1
          /\ numeric_analysis[1].column = NumericColumns[1].name

\* C8 as amended: the one record is returned when the column has a non-null value and is
\* not identifier-like; otherwise no record is returned. The matrix is None either way.
C8_OneRecordIfEligible ==
    /\ MatrixAbsentForOne
    /\ (After("analyze_numeric_columns") /\ OneNumericColumn /\ args.max_columns = 3) =>
          IF Eligible(NumericColumns[1])
          THEN /\ Len(numeric_analysis) = 1
               /\ numeric_analysis[1].column = NumericColumns[1].name
               /\ numeric_analysis[1].values
                     = SelectSeq(NumericColumns[1].values, LAMBDA v : v # NULL)
          ELSE numeric_analysis = << >>

C8_Witness ==
    /\ After("analyze_numeric_columns")
    /\ OneNumericColumn
    /\ args.max_columns = 3
    /\ Len(Table.columns) > 1
    /\ Len(numeric_analysis) = 1

\* ------------------------------------------------------------ properties of the report
Drawn(k) == canvas[k].op # "showPage"

\* C7: called with no numeric records and no matrix, generate_pdf_report still produces a
\* document, and what it draws is the Title block and the Overview block only.
C7_OnlyTitleAndOverview ==
    (pc = "pdf_returned" /\ numeric_analysis = << >> /\ corr_matrix = None) =>
        /\ pdf # None
        /\ \A k \in 1..Len(canvas) : canvas[k].block \in {"title", "overview"}

\* the cursor only decreases within a page
CursorDecreases ==
    \A k \in 1..Len(canvas), l \in 1..Len(canvas) :
        (k < l /\ canvas[k].page = canvas[l].page) => canvas[l].y <= canvas[k].y

\* a page ends only at a showPage, and a showPage comes only before a numeric record whose
\* starting cursor is below 250 or before the heatmap
PageBreaksByRule ==
    /\ \A k \in 1..(Len(canvas) - 1) :
          canvas[k + 1].page # canvas[k].page =>
              /\ canvas[k].op = "showPage"
              /\ canvas[k + 1].page = canvas[k].page + 1
              /\ canvas[k + 1].y = PageTop
    /\ \A k \in 1..Len(canvas) :
          canvas[k].op = "showPage" =>
              \/ /\ canvas[k].block = "numeric"
                 /\ canvas[k].y < 25000
                 /\ k < Len(canvas)
                 /\ canvas[k + 1].stat = canvas[k].stat
                 /\ \A l \in 1..(k - 1) : canvas[l].stat # canvas[k].stat
              \/ canvas[k].block = "heatmap"
    /\ \A k \in 1..Len(canvas) :
          (Drawn(k) /\ canvas[k].block = "heatmap") =>
              \E l \in 1..(k - 1) : canvas[l].op = "showPage" /\ canvas[l].block = "heatmap"

\* every element of one numeric record is on the record's page, not below its bottom edge
RecordsOnOnePage ==
    \A k \in 1..Len(canvas), l \in 1..Len(canvas) :
        (Drawn(k) /\ Drawn(l) /\ canvas[k].stat > 0 /\ canvas[k].stat = canvas[l].stat) =>
            /\ canvas[k].page = canvas[l].page
            /\ canvas[k].at >= 0

\* C9: the cursor only decreases within a page and is reset only by a page break; a page
\* break comes only before a numeric record starting below 250 or before the heatmap,
\* which always starts a new page; every element of a numeric record is drawn on one page,
\* not below the page's bottom edge.
C9_RecordsStayOnPage ==
    /\ CursorDecreases
    /\ PageBreaksByRule
    /\ RecordsOnOnePage

\* ------------------------------------------------------------ properties of the run
AnalyzerOrder ==
    << "get_dataset_overview", "check_missing_data", "analyze_numeric_columns",
       "find_correlations", "analyze_categorical_columns", "generate_pdf_report" >>

\* the analyzers and the report builder among the calls (the matrix accessor left out)
Stages == SelectSeq(calls, LAMBDA f : f # "get_correlation_matrix")

IsPrefix(s, t) == Len(s) <= Len(t) /\ s = SubSeq(t, 1, Len(s))

ErrorShown ==
    \E k \in 1..Len(shown) :
        shown[k] \in {"exception", "error: unsupported file type",
                      "error: failed to read the uploaded file"}

\* C10: a load failure (a read error other than the recovered CSV decode failure, or an
\* unsupported extension) is shown and halts the run before any analyzer or the report
\* builder; these run only once a table is loaded, in the order overview, quality,
\* numeric, correlation, categorical, report.
C10_LoadFailureIsTerminal ==
    /\ load_error # "none" =>
          /\ pc = "halted"
          /\ ErrorShown
          /\ calls = << >>
          /\ df = None
          /\ NoResults
          /\ pdf = None
    /\ calls # << >> =>
          /\ df # None
          /\ load_error = "none"
          /\ IsPrefix(Stages, AnalyzerOrder)
    /\ (pc = "done" /\ df # None) => Stages = AnalyzerOrder
    /\ (pc = "done" /\ df = None) => calls = << >>

C10_Witness ==
    /\ pc = "halted"
    /\ load_error = "latin1_read_error"
    /\ ErrorShown
    /\ calls = << >>

====
